---- MODULE Spec2Model ----
(***************************************************************************)
(* Metal Price Data Analyzer (src/app.py): the CSV loader/normaliser       *)
(* load_and_process_data, the filter engine filter_data and the tab        *)
(* renderer display_metal_tab, for one metal tab of a Streamlit session.   *)
(* The three tabs are independent instances of the same code (separate     *)
(* files, separate widget keys), so one tab is modelled.                   *)
(***************************************************************************)
EXTENDS Integers, Sequences, FiniteSets, TLC

VARIABLES file, pc, df, error_shown, widgets, filter_result, ui

vars == <<file, pc, df, error_shown, widgets, filter_result, ui>>

(***************************************************************************)
(* Bounds of the model.                                                    *)
(***************************************************************************)
MaxRows == 2

(***************************************************************************)
(* Text: a column header is a sequence of one-character strings.           *)
(***************************************************************************)
Uppers == <<"A","B","C","D","E","F","G","H","I","J","K","L","M",
            "N","O","P","Q","R","S","T","U","V","W","X","Y","Z">>

Lowers == <<"a","b","c","d","e","f","g","h","i","j","k","l","m",
            "n","o","p","q","r","s","t","u","v","w","x","y","z">>

Whitespace == {" ", "\t"}

\* the lower-case letter of every upper-case letter
LowerOf ==
    [c \in { Uppers[i] : i \in 1..26 } |->
        Lowers[CHOOSE i \in 1..26 : Uppers[i] = c]]

\* str.lower() on one character
LowerChar(c) == IF c \in DOMAIN LowerOf THEN LowerOf[c] ELSE c

\* str.lower()
Lower(s) == [i \in 1..Len(s) |-> LowerChar(s[i])]

RECURSIVE LStrip(_)
LStrip(s) ==
    IF s # <<>> /\ Head(s) \in Whitespace THEN LStrip(Tail(s)) ELSE s

RECURSIVE RStrip(_)
RStrip(s) ==
    IF s # <<>> /\ s[Len(s)] \in Whitespace
    THEN RStrip(SubSeq(s, 1, Len(s) - 1))
    ELSE s

\* str.strip()
Strip(s) == RStrip(LStrip(s))

DATE == <<"d","a","t","e">>

PRICE == <<"p","r","i","c","e">>

(***************************************************************************)
(* Cells.  Every cell, raw or converted, is a record [kind, a, b, c]:      *)
(*   "dmy"   text dd/mm/yyyy with a = dd, b = mm, c = yyyy                 *)
(*   "num"   text of the number a                                          *)
(*   "text"  text that is neither a date, a number nor a marker read_csv   *)
(*           takes for a missing value                                     *)
(*   "empty" an empty CSV field or such a marker (read_csv yields NaN)     *)
(*   "ts"    a Timestamp, a = year, b = month, c = day                     *)
(*   "NaT"   the missing Timestamp                                         *)
(*   "float" the float a                                                   *)
(*   "NaN"   the missing float                                             *)
(* Dates have day granularity; the date column of a file holds "dmy",      *)
(* "text" and "empty" cells, every other column "num" and "text" cells.    *)
(***************************************************************************)
Cell(k, x, y, z) == [kind |-> k, a |-> x, b |-> y, c |-> z]

Dmy(d, m, y) == Cell("dmy", d, m, y)

NumText(n) == Cell("num", n, 0, 0)

OtherText == Cell("text", 0, 0, 0)

EmptyCell == Cell("empty", 0, 0, 0)

Timestamp(y, m, d) == Cell("ts", y, m, d)

NaT == Cell("NaT", 0, 0, 0)

Float(n) == Cell("float", n, 0, 0)

NaN == Cell("NaN", 0, 0, 0)

IsLeap(y) == (y % 4 = 0 /\ y % 100 # 0) \/ y % 400 = 0

DaysInMonth(y, m) ==
    IF m = 2 THEN (IF IsLeap(y) THEN 29 ELSE 28)
    ELSE IF m \in {4, 6, 9, 11} THEN 30 ELSE 31

\* whether pd.to_datetime(cell, dayfirst=True) raises on this cell
DateRaises(cell) ==
    CASE cell.kind = "dmy" ->
            ~(cell.b \in 1..12 /\ cell.a \in 1..DaysInMonth(cell.c, cell.b))
      [] cell.kind = "text" -> TRUE
      [] cell.kind \in {"empty", "ts", "NaT"} -> FALSE

\* pd.to_datetime(cell, dayfirst=True) on a cell that does not raise:
\* the first field of dd/mm/yyyy is the day
ToDatetimeCell(cell) ==
    CASE cell.kind = "dmy" -> Timestamp(cell.c, cell.b, cell.a)
      [] cell.kind = "ts" -> cell
      [] OTHER -> NaT

\* pd.to_numeric(cell, errors='coerce')
ToNumericCell(cell) ==
    CASE cell.kind = "num" -> Float(cell.a)
      [] cell.kind = "float" -> cell
      [] OTHER -> NaN

\* Timestamp comparison; every comparison with NaT is False
TsLE(s, t) ==
    /\ s.kind = "ts"
    /\ t.kind = "ts"
    /\ \/ s.a < t.a
       \/ s.a = t.a /\ s.b < t.b
       \/ s.a = t.a /\ s.b = t.b /\ s.c <= t.c

TsGE(s, t) == TsLE(t, s)

(***************************************************************************)
(* DataFrame: [present, columns, rows]; rows[i][j] is the value of column  *)
(* columns[j] in row i.  None is the frame with present = FALSE.           *)
(***************************************************************************)
Frame(cols, rs) == [present |-> TRUE, columns |-> cols, rows |-> rs]

None == [present |-> FALSE, columns |-> <<>>, rows |-> <<>>]

HasColumn(d, name) == \E j \in 1..Len(d.columns) : d.columns[j] = name

ColIndex(d, name) ==
    CHOOSE j \in 1..Len(d.columns) :
        /\ d.columns[j] = name
        /\ \A k \in 1..(j - 1) : d.columns[k] # name

\* df[name] as the sequence of its values
Column(d, name) ==
    LET j == ColIndex(d, name)
    IN [i \in 1..Len(d.rows) |-> d.rows[i][j]]

\* df.iloc[:, 0]
FirstColumn(d) == [i \in 1..Len(d.rows) |-> d.rows[i][1]]

\* df[name] = vals: replaces the column in place, or appends a new one
SetColumn(d, name, vals) ==
    IF HasColumn(d, name)
    THEN LET j == ColIndex(d, name)
         IN Frame(d.columns,
                  [i \in 1..Len(d.rows) |-> [d.rows[i] EXCEPT ![j] = vals[i]]])
    ELSE Frame(Append(d.columns, name),
               [i \in 1..Len(d.rows) |-> Append(d.rows[i], vals[i])])

RemoveAt(s, j) == SubSeq(s, 1, j - 1) \o SubSeq(s, j + 1, Len(s))

\* df.drop(columns=[name])
DropColumn(d, name) ==
    LET j == ColIndex(d, name)
    IN Frame(RemoveAt(d.columns, j),
             [i \in 1..Len(d.rows) |-> RemoveAt(d.rows[i], j)])

\* [col for col in df.columns if col.lower() == target]
ColumnsMatching(d, target) ==
    SelectSeq(d.columns, LAMBDA col : Lower(col) = target)

RECURSIVE InsertByDate(_, _, _)
\* insertion of row r after every row whose date is <= r's date
InsertByDate(sorted, r, j) ==
    IF sorted = <<>> THEN <<r>>
    ELSE IF TsLE(Head(sorted)[j], r[j])
         THEN <<Head(sorted)>> \o InsertByDate(Tail(sorted), r, j)
         ELSE <<r>> \o sorted

RECURSIVE SortRows(_, _)
SortRows(rs, j) ==
    IF rs = <<>> THEN <<>>
    ELSE InsertByDate(SortRows(SubSeq(rs, 1, Len(rs) - 1), j), rs[Len(rs)], j)

\* the frame left in file order
SortValues_Unsorted(d, name) == d

\* df.sort_values(name).reset_index(drop=True): ascending, missing dates
\* last (na_position='last'); equal dates stay in input order, which is
\* what the default sort does on tables this short
SortValues(d, name) ==
    LET j == ColIndex(d, name)
        dated == SelectSeq(d.rows, LAMBDA r : r[j].kind = "ts")
        undated == SelectSeq(d.rows, LAMBDA r : r[j].kind # "ts")
    IN Frame(d.columns, SortRows(dated, j) \o undated)

(***************************************************************************)
(* load_and_process_data                                                   *)
(***************************************************************************)
\* pd.read_csv raises EmptyDataError on a file with no header line
ReadCsvRaises(f) == f.header = <<>>

\* pd.read_csv(file_path)
ReadCsv(f) == Frame(f.header, f.rows)

\* df.columns = df.columns.str.strip()
StripColumns(d) ==
    Frame([j \in 1..Len(d.columns) |-> Strip(d.columns[j])], d.rows)

\* the column the dates are read from: df[date_col[0]] or df.iloc[:, 0]
DateSource(d) ==
    LET date_col == ColumnsMatching(d, DATE)
    IN IF date_col # <<>> THEN Column(d, date_col[1]) ELSE FirstColumn(d)

\* errors='coerce': no cell makes the conversion raise
ToDatetimeRaises_Coerce(series) == FALSE

\* pd.to_datetime(series, dayfirst=True) raises when one cell does
ToDatetimeRaises(series) == \E i \in 1..Len(series) : DateRaises(series[i])

ToDatetime(series) == [i \in 1..Len(series) |-> ToDatetimeCell(series[i])]

\* pd.to_numeric(series, errors='coerce')
ToNumeric(series) == [i \in 1..Len(series) |-> ToNumericCell(series[i])]

\* lines 27-33
NormalizeDate(d) ==
    LET date_col == ColumnsMatching(d, DATE)
    IN IF date_col # <<>>
       THEN LET d1 == SetColumn(d, DATE, ToDatetime(Column(d, date_col[1])))
            IN IF date_col[1] # DATE THEN DropColumn(d1, date_col[1]) ELSE d1
       ELSE SetColumn(d, DATE, ToDatetime(FirstColumn(d)))

\* the rows whose price is missing are dropped after the conversion
NormalizePrice_DropMissing(d) ==
    LET price_col == ColumnsMatching(d, PRICE)
    IN IF price_col # <<>>
       THEN LET d1 == SetColumn(d, PRICE, ToNumeric(Column(d, price_col[1])))
                d2 == IF price_col[1] # PRICE THEN DropColumn(d1, price_col[1]) ELSE d1
                j == ColIndex(d2, PRICE)
            IN Frame(d2.columns, SelectSeq(d2.rows, LAMBDA r : r[j].kind = "float"))
       ELSE d

\* lines 36-40
NormalizePrice(d) ==
    LET price_col == ColumnsMatching(d, PRICE)
    IN IF price_col # <<>>
       THEN LET d1 == SetColumn(d, PRICE, ToNumeric(Column(d, price_col[1])))
            IN IF price_col[1] # PRICE THEN DropColumn(d1, price_col[1]) ELSE d1
       ELSE d

\* the result of load_and_process_data: the returned frame (or None) and
\* whether st.error reported a message
LoadResult(d, e) == [df |-> d, error |-> e]

\* a missing file yields an empty table instead of None
load_and_process_data_EmptyFrame(f) ==
    IF f.path # "" /\ f.exists
    THEN IF ReadCsvRaises(f) THEN LoadResult(None, TRUE)
         ELSE LET d0 == StripColumns(ReadCsv(f))
                  d1 == NormalizeDate(d0)
                  d2 == NormalizePrice(d1)
              IN IF ToDatetimeRaises(DateSource(d0))
                 THEN LoadResult(None, TRUE)
                 ELSE LoadResult(SortValues(d2, DATE), FALSE)
    ELSE LoadResult(Frame(<<DATE, PRICE>>, <<>>), FALSE)

load_and_process_data(f) ==
    IF f.path # "" /\ f.exists
    THEN IF ReadCsvRaises(f) THEN LoadResult(None, TRUE)
         ELSE LET d0 == StripColumns(ReadCsv(f))
                  d1 == NormalizeDate(d0)
                  d2 == NormalizePrice(d1)
              IN IF ToDatetimeRaises(DateSource(d0))
                 THEN LoadResult(None, TRUE)
                 ELSE LoadResult(SortValues(d2, DATE), FALSE)
    ELSE LoadResult(None, FALSE)

(***************************************************************************)
(* The input files of the model.                                           *)
(***************************************************************************)
COPPER_FILE == "LME_Copper.csv"

DateCells ==
    { Dmy(1, 4, 2023), Dmy(15, 3, 2023), Dmy(10, 3, 2022),
      EmptyCell, OtherText, Dmy(31, 2, 2023) }

PriceCells == { NumText(10), NumText(20), OtherText }

Headers ==
    { <<DATE, PRICE>>,
      << <<" ","D","a","t","e"," ">>, <<"P","R","I","C","E">> >>,
      << <<"D","a","y">>, <<"P","r","i","c","e">> >>,
      << DATE, <<"V","o","l">> >> }

\* the cells of the files a whole session is followed on
SessionDateCells == { Dmy(15, 3, 2023), Dmy(10, 3, 2022), EmptyCell, OtherText }

SessionPriceCells == { NumText(10), OtherText }

CsvRows(dates, prices) ==
    UNION { [1..n -> { <<dc, pc0>> : dc \in dates, pc0 \in prices }]
            : n \in 0..MaxRows }

File(p, ex, h, rs) == [path |-> p, exists |-> ex, header |-> h, rows |-> rs]

\* every header with up to MaxRows rows of the given cells, the file with
\* no content at all, and the file that does not exist
FilesOf(dates, prices) ==
    { File(COPPER_FILE, TRUE, h, rs) : h \in Headers, rs \in CsvRows(dates, prices) }
      \cup { File(COPPER_FILE, TRUE, <<>>, <<>>),
             File(COPPER_FILE, FALSE, <<>>, <<>>) }

Files == FilesOf(DateCells, PriceCells)

SessionFiles == FilesOf(SessionDateCells, SessionPriceCells)

(***************************************************************************)
(* filter_data                                                             *)
(***************************************************************************)
MonthNames ==
    <<"January", "February", "March", "April", "May", "June",
      "July", "August", "September", "October", "November", "December">>

\* datetime.strptime(name, "%B") raises on a string that is no month name
StrptimeRaises(name) == ~(\E i \in 1..12 : MonthNames[i] = name)

\* datetime.strptime(name, "%B").month
MonthNumber(name) == CHOOSE i \in 1..12 : MonthNames[i] = name

\* A year selection is a string: "All", a year in digits ("2023"), a float
\* in digits ("2023.0"), or "nan".
YearLabel(k, v) == [kind |-> k, val |-> v]

AllYears == YearLabel("All", 0)

\* the selection that is absent (None or the empty string)
NoYear == YearLabel("None", 0)

\* the "All" sentinel is not excluded
YearActive_NoSentinel(label) == label # NoYear

\* `year_filter and year_filter != "All"`
YearActive(label) == label # NoYear /\ label # AllYears

\* `month_filter and month_filter != "All"`; "" stands for None as well
MonthActive(name) == name # "" /\ name # "All"

\* int(label) raises unless the string is an integer literal
IntRaises(label) == label.kind # "int"

\* the end of the range is exclusive
ApplyDateRange_ExclusiveEnd(d, date_range) ==
    IF date_range # <<>>
    THEN LET j == ColIndex(d, DATE)
             start == ToDatetimeCell(date_range[1])
             end == ToDatetimeCell(date_range[2])
         IN Frame(d.columns,
                  SelectSeq(d.rows, LAMBDA r :
                      TsGE(r[j], start) /\ TsLE(r[j], end) /\ r[j] # end))
    ELSE d

\* the two bounds are joined with | instead of &
ApplyDateRange_Either(d, date_range) ==
    IF date_range # <<>>
    THEN LET j == ColIndex(d, DATE)
             start == ToDatetimeCell(date_range[1])
             end == ToDatetimeCell(date_range[2])
         IN Frame(d.columns,
                  SelectSeq(d.rows, LAMBDA r : TsGE(r[j], start) \/ TsLE(r[j], end)))
    ELSE d

\* lines 54-56: filtered_df[(date >= start) & (date <= end)]
ApplyDateRange(d, date_range) ==
    IF date_range # <<>>
    THEN LET j == ColIndex(d, DATE)
             start == ToDatetimeCell(date_range[1])
             end == ToDatetimeCell(date_range[2])
         IN Frame(d.columns,
                  SelectSeq(d.rows, LAMBDA r : TsGE(r[j], start) /\ TsLE(r[j], end)))
    ELSE d

\* lines 59-61: filtered_df[date.dt.month == month_num]
ApplyMonth(d, month_filter) ==
    IF MonthActive(month_filter)
    THEN LET j == ColIndex(d, DATE)
             month_num == MonthNumber(month_filter)
         IN Frame(d.columns,
                  SelectSeq(d.rows, LAMBDA r : r[j].kind = "ts" /\ r[j].b = month_num))
    ELSE d

\* lines 64-65: filtered_df[date.dt.year == int(year_filter)]
ApplyYear(d, year_filter) ==
    IF YearActive(year_filter)
    THEN LET j == ColIndex(d, DATE)
         IN Frame(d.columns,
                  SelectSeq(d.rows, LAMBDA r : r[j].kind = "ts" /\ r[j].a = year_filter.val))
    ELSE d

FilterRaises(month_filter, year_filter) ==
    \/ MonthActive(month_filter) /\ StrptimeRaises(month_filter)
    \/ YearActive(year_filter) /\ IntRaises(year_filter)

\* what a call of filter_data left: whether it was called, whether it
\* raised, the frame it returned, and the caller's frame (the argument
\* object) as it is after the call
FilterResult(c, r, d, src) == [called |-> c, raised |-> r, df |-> d, source |-> src]

NotCalled == FilterResult(FALSE, FALSE, None, None)

\* df.copy(): a new frame with the same columns and rows
Copy(d) == Frame(d.columns, d.rows)

\* the filters are applied to the argument object itself
filter_data_InPlace(d, date_range, month_filter, year_filter) ==
    IF FilterRaises(month_filter, year_filter)
    THEN FilterResult(TRUE, TRUE, None, d)
    ELSE LET filtered_df ==
                 ApplyYear(ApplyMonth(ApplyDateRange(d, date_range), month_filter),
                           year_filter)
         IN FilterResult(TRUE, FALSE, filtered_df, filtered_df)

\* every step rebinds filtered_df to a new frame, which starts as a copy
\* of the argument, so the argument object is left as it was
filter_data(d, date_range, month_filter, year_filter) ==
    LET filtered_df == Copy(d)
    IN IF FilterRaises(month_filter, year_filter)
       THEN FilterResult(TRUE, TRUE, None, d)
       ELSE FilterResult(TRUE, FALSE,
               ApplyYear(ApplyMonth(ApplyDateRange(filtered_df, date_range),
                                    month_filter),
                         year_filter),
               d)

(***************************************************************************)
(* display_metal_tab                                                       *)
(***************************************************************************)
Widgets(y, m, u, s, e) ==
    [year |-> y, month |-> m, use_range |-> u, start |-> s, end |-> e]

\* the widget values of a first run: both selectboxes on their first
\* option, the checkbox off, the date inputs not rendered
DefaultWidgets == Widgets(AllYears, "All", FALSE, NaT, NaT)

Dates(d) ==
    LET j == ColIndex(d, DATE)
    IN { d.rows[i][j] : i \in 1..Len(d.rows) }

ValidDates(d) == { t \in Dates(d) : t.kind = "ts" }

\* df['date'].min(), NaT when no date is present
DateMin(d) ==
    IF ValidDates(d) = {} THEN NaT
    ELSE CHOOSE t \in ValidDates(d) : \A u \in ValidDates(d) : TsLE(t, u)

\* df['date'].max()
DateMax(d) ==
    IF ValidDates(d) = {} THEN NaT
    ELSE CHOOSE t \in ValidDates(d) : \A u \in ValidDates(d) : TsLE(u, t)

\* line 96: df['date'].dt.year is a float column as soon as one date is
\* missing, and astype(str) then yields "2023.0" and "nan"
YearOptions(d) ==
    {AllYears} \cup
    IF NaT \in Dates(d)
    THEN { YearLabel("float", t.a) : t \in ValidDates(d) } \cup {YearLabel("nan", 0)}
    ELSE { YearLabel("int", t.a) : t \in ValidDates(d) }

\* df.to_excel(writer, index=False, sheet_name='Data') offered as file_name
Export(d, name) ==
    [file_name |-> name, sheet |-> "Data", header |-> d.columns, rows |-> d.rows]

NoExport == [file_name |-> "", sheet |-> "", header |-> <<>>, rows |-> <<>>]

Prices(d) ==
    LET col == Column(d, PRICE)
    IN SelectSeq(col, LAMBDA v : v.kind = "float")

RECURSIVE SumSeq(_)
SumSeq(s) == IF s = <<>> THEN 0 ELSE Head(s).a + SumSeq(Tail(s))

\* Series.mean(), skipping missing values: the pair (sum, count), NaN when
\* no value is left
Mean(s) == IF s = <<>> THEN NaN ELSE Cell("mean", SumSeq(s), Len(s), 0)

\* Series.min()
Min(s) ==
    IF s = <<>> THEN NaN
    ELSE s[CHOOSE i \in 1..Len(s) : \A k \in 1..Len(s) : s[i].a <= s[k].a]

\* Series.max()
Max(s) ==
    IF s = <<>> THEN NaN
    ELSE s[CHOOSE i \in 1..Len(s) : \A k \in 1..Len(s) : s[i].a >= s[k].a]

Page(st, at, ms, ch, tb, fe, ce) ==
    [state |-> st, raised_at |-> at, metrics |-> ms, chart |-> ch, table |-> tb,
     filtered_export |-> fe, complete_export |-> ce]

BlankPage == Page("blank", "", <<>>, FALSE, None, NoExport, NoExport)

\* lines 109-116
DateRangeOf(w) == IF w.use_range THEN <<w.start, w.end>> ELSE <<>>

\* st.date_input was given a missing default and the user picked nothing
DateInputUndefined(w) ==
    w.use_range /\ (w.start.kind # "ts" \/ w.end.kind # "ts")

\* what one call of display_metal_tab left: the result of its call of
\* filter_data (line 119), the page, and the frame object it was given
Shown(fr, page, d) == [filter_result |-> fr, page |-> page, df |-> d]

\* lines 121-160, given the frame filter_data returned
RenderPage(d, filtered_df) ==
    IF ~HasColumn(filtered_df, PRICE)
    THEN Page("exception", "metric", << Float(Len(filtered_df.rows)) >>, FALSE,
              None, NoExport, NoExport)
    ELSE LET prices == Prices(filtered_df)
         IN Page("rendered", "",
                 << Float(Len(filtered_df.rows)), Mean(prices), Min(prices),
                    Max(prices) >>,
                 TRUE, filtered_df,
                 Export(filtered_df, "copper_filtered_data.xlsx"),
                 Export(d, "copper_complete_data.xlsx"))

\* strict says whether st.date_input rejects a missing default value
display_metal_tab(d, w, strict) ==
    IF ~d.present
    THEN Shown(NotCalled,
               Page("warning", "", <<>>, FALSE, None, NoExport, NoExport), d)
    ELSE IF DateInputUndefined(w) /\ strict
    THEN Shown(NotCalled,
               Page("exception", "date_input", <<>>, FALSE, None, NoExport, NoExport),
               d)
    ELSE LET fr == filter_data(d, DateRangeOf(w), w.month, w.year)
         IN IF fr.raised
            THEN Shown(fr, Page("exception", "filter_data", <<>>, FALSE, None,
                                NoExport, NoExport), fr.source)
            ELSE Shown(fr, RenderPage(fr.source, fr.df), fr.source)

(***************************************************************************)
(* The session: the script runs once, then every widget interaction        *)
(* re-runs it from the top (lines 163-171).                                *)
(***************************************************************************)
MonthChoices == {"All", "March", "April"}

YearChoices ==
    {AllYears, YearLabel("nan", 0)} \cup
    { YearLabel(k, y) : k \in {"int", "float"}, y \in {2022, 2023} }

\* whether st.date_input rejects a missing default is the library's choice
StrictChoices(w) == IF DateInputUndefined(w) THEN BOOLEAN ELSE {FALSE}

PickerDates == { Timestamp(2022, 3, 10), Timestamp(2023, 3, 15) }

Init ==
    /\ file \in SessionFiles
    /\ pc = "start"
    /\ df = None
    /\ error_shown = FALSE
    /\ widgets = DefaultWidgets
    /\ filter_result = NotCalled
    /\ ui = BlankPage

\* one execution of the script with the widget values w
Run(w, strict) ==
    LET lr == load_and_process_data(file)
        shown == display_metal_tab(lr.df, w, strict)
    IN /\ df' = shown.df
       /\ error_shown' = lr.error
       /\ widgets' = w
       /\ filter_result' = shown.filter_result
       /\ ui' = shown.page
       /\ pc' = "idle"
       /\ UNCHANGED file

Rerun(w) == \E strict \in StrictChoices(w) : Run(w, strict)

RunScript ==
    /\ pc = "start"
    /\ Run(DefaultWidgets, FALSE)

\* the widgets of lines 96-107 exist once a run got past line 87
Interactive == pc = "idle" /\ df.present

SelectYear(y) ==
    /\ Interactive
    /\ y \in YearOptions(df)
    /\ y # widgets.year
    /\ Rerun([widgets EXCEPT !.year = y])

SelectMonth(m) ==
    /\ Interactive
    /\ m # widgets.month
    /\ Rerun([widgets EXCEPT !.month = m])

\* ticking the checkbox renders the date inputs with their defaults;
\* unticking it drops them
ToggleDateRange ==
    /\ Interactive
    /\ Rerun(IF widgets.use_range
             THEN [widgets EXCEPT !.use_range = FALSE, !.start = NaT, !.end = NaT]
             ELSE [widgets EXCEPT !.use_range = TRUE,
                                  !.start = DateMin(df), !.end = DateMax(df)])

DateInputsRendered == widgets.use_range /\ ui.raised_at # "date_input"

PickStartDate(t) ==
    /\ Interactive
    /\ DateInputsRendered
    /\ t # widgets.start
    /\ Rerun([widgets EXCEPT !.start = t])

PickEndDate(t) ==
    /\ Interactive
    /\ DateInputsRendered
    /\ t # widgets.end
    /\ Rerun([widgets EXCEPT !.end = t])

Next ==
    \/ RunScript
    \/ \E y \in YearChoices : SelectYear(y)
    \/ \E m \in MonthChoices : SelectMonth(m)
    \/ ToggleDateRange
    \/ \E t \in PickerDates : PickStartDate(t)
    \/ \E t \in PickerDates : PickEndDate(t)

Spec == Init /\ [][Next]_vars

(***************************************************************************)
(* The loader alone, on every file of the model: one run of the script.    *)
(***************************************************************************)
InitLoad ==
    /\ file \in Files
    /\ pc = "start"
    /\ df = None
    /\ error_shown = FALSE
    /\ widgets = DefaultWidgets
    /\ filter_result = NotCalled
    /\ ui = BlankPage

NextLoad == RunScript

SpecLoad == InitLoad /\ [][NextLoad]_vars

(***************************************************************************)
(* filter_data alone: one call on a loaded table with any FilterSpec.      *)
(***************************************************************************)
\* the FilterSpecs of the model: a range or none, a month name, "All" or
\* none, a year in digits, "All" or none
RangeArgs == {<<>>} \cup (PickerDates \X PickerDates)

MonthArgs == {"", "All", "March", "April"}

YearArgs == {NoYear, AllYears, YearLabel("int", 2022), YearLabel("int", 2023)}

InitFilter ==
    /\ file \in Files
    /\ load_and_process_data(file).df.present
    /\ pc = "call"
    /\ df = load_and_process_data(file).df
    /\ error_shown = FALSE
    /\ widgets = DefaultWidgets
    /\ filter_result = NotCalled
    /\ ui = BlankPage

\* the arguments are kept in widgets
CallFilter(date_range, month_filter, year_filter) ==
    /\ pc = "call"
    /\ pc' = "returned"
    /\ widgets' = IF date_range = <<>>
                  THEN Widgets(year_filter, month_filter, FALSE, NaT, NaT)
                  ELSE Widgets(year_filter, month_filter, TRUE,
                               date_range[1], date_range[2])
    /\ filter_result' = filter_data(df, date_range, month_filter, year_filter)
    /\ UNCHANGED <<file, df, error_shown, ui>>

NextFilter ==
    \E date_range \in RangeArgs, month_filter \in MonthArgs, year_filter \in YearArgs :
        CallFilter(date_range, month_filter, year_filter)

SpecFilter == InitFilter /\ [][NextFilter]_vars

(***************************************************************************)
(* Properties.                                                             *)
(***************************************************************************)
\* a calendar date as one number, for comparisons
DayNumber(t) == t.a * 10000 + t.b * 100 + t.c

MonthOfName ==
    [January |-> 1, February |-> 2, March |-> 3, April |-> 4, May |-> 5,
     June |-> 6, July |-> 7, August |-> 8, September |-> 9, October |-> 10,
     November |-> 11, December |-> 12]

\* the date t satisfies every active filter of the FilterSpec w
RowMatches(t, w) ==
    /\ w.use_range =>
          /\ t.kind = "ts"
          /\ DayNumber(w.start) <= DayNumber(t)
          /\ DayNumber(t) <= DayNumber(w.end)
    /\ w.month \notin {"", "All"} => t.kind = "ts" /\ t.b = MonthOfName[w.month]
    /\ w.year.kind = "int" => t.kind = "ts" /\ t.a = w.year.val

\* the header of the file (trimmed, case-insensitively) that names column c
HeaderNames(h, c) == Lower(Strip(h)) = c

HasHeader(f, c) == \E j \in 1..Len(f.header) : HeaderNames(f.header[j], c)

FirstHeader(f, c) ==
    CHOOSE j \in 1..Len(f.header) :
        /\ HeaderNames(f.header[j], c)
        /\ \A k \in 1..(j - 1) : ~HeaderNames(f.header[k], c)

\* the column of the file the dates are read from
DateSourceIndex(f) == IF HasHeader(f, DATE) THEN FirstHeader(f, DATE) ELSE 1

\* a date cell that is neither empty nor a calendar date written dd/mm/yyyy
BadDateText(cell) ==
    \/ cell.kind = "text"
    \/ /\ cell.kind = "dmy"
       /\ ~(cell.b \in 1..12 /\ cell.a \in 1..DaysInMonth(cell.c, cell.b))

\* a file pd.read_csv reads and whose date cells all parse
Loadable(f) ==
    /\ f.exists
    /\ f.header # <<>>
    /\ \A i \in 1..Len(f.rows) : ~BadDateText(f.rows[i][DateSourceIndex(f)])

ExpectedDate(cell) ==
    IF cell.kind = "dmy" THEN Timestamp(cell.c, cell.b, cell.a) ELSE NaT

ExpectedPrice(cell) == IF cell.kind = "num" THEN Float(cell.a) ELSE NaN

\* C1: filter_data returns exactly the rows of its input, in input order,
\* whose date satisfies every active filter: inside the inclusive range when
\* one is given, in the chosen month when one is given, in the chosen year
\* when one is given.
C1_FilterKeepsExactlyMatchingRows ==
    pc = "returned" =>
        /\ ~filter_result.raised
        /\ filter_result.df.present
        /\ filter_result.df.columns = df.columns
        /\ filter_result.df.rows =
              SelectSeq(df.rows, LAMBDA r : RowMatches(r[ColIndex(df, DATE)], widgets))

\* month = March with year = 2023 on a table with a March 2023 row and a
\* March 2022 row keeps the March 2023 row only
C1_Witness ==
    /\ pc = "returned"
    /\ widgets.month = "March"
    /\ widgets.year = YearLabel("int", 2023)
    /\ ~widgets.use_range
    /\ Len(df.rows) = 2
    /\ Dates(df) = { Timestamp(2022, 3, 10), Timestamp(2023, 3, 15) }
    /\ Len(filter_result.df.rows) = 1
    /\ Dates(filter_result.df) = { Timestamp(2023, 3, 15) }

\* C2: with no date range, the month absent or "All" and the year absent or
\* "All", filter_data returns a table equal to its input.
C2_NoFilterIsIdentity ==
    (/\ pc = "returned"
     /\ ~widgets.use_range
     /\ widgets.month \in {"", "All"}
     /\ widgets.year \in {NoYear, AllYears}) =>
        /\ ~filter_result.raised
        /\ filter_result.df = df

C2_Witness ==
    /\ pc = "returned"
    /\ ~widgets.use_range
    /\ widgets.month = "All"
    /\ widgets.year = AllYears
    /\ Len(df.rows) = 2
    /\ filter_result.df.rows = df.rows

C4_LoadedTableSortedByDate ==
    (pc = "idle" /\ df.present) =>
        LET j == ColIndex(df, DATE)
        IN \A i, k \in 1..Len(df.rows) :
              i < k =>
                 /\ (df.rows[i][j].kind = "ts" /\ df.rows[k][j].kind = "ts") =>
                        DayNumber(df.rows[i][j]) <= DayNumber(df.rows[k][j])
                 /\ df.rows[k][j].kind = "ts" => df.rows[i][j].kind = "ts"

\* a file whose rows are in descending date order
C4_Witness ==
    /\ pc = "idle"
    /\ df.present
    /\ Len(file.rows) = 2
    /\ file.rows[1][1] = Dmy(1, 4, 2023)
    /\ file.rows[2][1] = Dmy(15, 3, 2023)
    /\ df.rows[1][ColIndex(df, DATE)] = Timestamp(2023, 3, 15)
    /\ df.rows[2][ColIndex(df, DATE)] = Timestamp(2023, 4, 1)

\* C5: on a file with a price column whose dates parse, non-numeric price
\* cells do not fail the load: the table has one row per row of the file,
\* the price of a row is missing where the cell is not a number and is the
\* cell's number otherwise.
C5_BadPriceBecomesMissing ==
    (pc = "idle" /\ Loadable(file) /\ HasHeader(file, PRICE)) =>
        /\ df.present
        /\ HasColumn(df, PRICE)
        /\ Len(df.rows) = Len(file.rows)
        /\ \E perm \in Permutations(1..Len(file.rows)) :
              \A i \in 1..Len(file.rows) :
                 /\ df.rows[perm[i]][ColIndex(df, PRICE)] =
                       ExpectedPrice(file.rows[i][FirstHeader(file, PRICE)])
                 /\ df.rows[perm[i]][ColIndex(df, DATE)] =
                       ExpectedDate(file.rows[i][DateSourceIndex(file)])

\* a file with one numeric and one non-numeric price cell
C5_Witness ==
    /\ pc = "idle"
    /\ df.present
    /\ Len(file.rows) = 2
    /\ file.rows[1][2] = OtherText
    /\ file.rows[2][2] = NumText(20)
    /\ HasHeader(file, PRICE)
    /\ Len(df.rows) = 2
    /\ { df.rows[i][ColIndex(df, PRICE)] : i \in 1..2 } = { NaN, Float(20) }

\* C6: for a path that does not exist load_and_process_data returns None,
\* which no table equals (a file with a header and no rows loads as a table
\* with no rows), and the tab then shows the warning and no metrics, chart,
\* table or export.
C6_MissingFileIsAbsent ==
    pc = "idle" =>
        /\ ~file.exists =>
              /\ df = None
              /\ ~df.present
              /\ ui.state = "warning"
              /\ ui.metrics = <<>>
              /\ ~ui.chart
              /\ ui.table = None
              /\ ui.filtered_export = NoExport
              /\ ui.complete_export = NoExport
        /\ (file.exists /\ file.header # <<>> /\ file.rows = <<>>) =>
              df.present /\ df.rows = <<>> /\ df # None /\ ui.state # "warning"

C6_Witness ==
    /\ pc = "idle"
    /\ ~file.exists
    /\ df = None
    /\ ui.state = "warning"

\* C7: filter_data leaves its argument as it was: after every run of the
\* script, whatever the widgets select, the table of the metal is the table
\* as loaded, and the complete-dataset export holds every loaded row.
C7_FilterLeavesSourceIntact ==
    (pc = "idle" /\ df.present) =>
        /\ df = load_and_process_data(file).df
        /\ Len(df.rows) = Len(file.rows)
        /\ filter_result.called => filter_result.source = df
        /\ ui.state = "rendered" =>
              /\ ui.complete_export.rows = load_and_process_data(file).df.rows
              /\ ui.complete_export.header = df.columns

\* after interactions, a filter that removed a row is in effect
C7_Witness ==
    /\ pc = "idle"
    /\ ui.state = "rendered"
    /\ widgets.use_range
    /\ widgets.month = "March"
    /\ Len(df.rows) = 2
    /\ Len(ui.table.rows) = 1
    /\ Len(ui.complete_export.rows) = 2

\* C8: when a date cell of an existing file cannot be parsed, or the file
\* cannot be read as a table, the load reports an error message and returns
\* None: no table, neither without the bad rows nor with missing dates.
C8_BadDateAbortsLoad ==
    (pc = "idle" /\ file.exists /\ ~Loadable(file)) =>
        /\ df = None
        /\ error_shown
        /\ ~filter_result.called

\* a file with one date that parses and one that does not
C8_Witness ==
    /\ pc = "idle"
    /\ file.exists
    /\ Len(file.rows) = 2
    /\ file.rows[1][1] = Dmy(15, 3, 2023)
    /\ file.rows[2][1] = OtherText
    /\ df = None
    /\ error_shown

\* C9: on a file with no price header the load succeeds with no price
\* column, and the statistics and the chart of the tab then work on missing
\* values instead of failing.
C9_NoPriceColumnStillDisplays ==
    (pc = "idle" /\ Loadable(file) /\ ~HasHeader(file, PRICE)) =>
        /\ df.present
        /\ ~HasColumn(df, PRICE)
        /\ ui.raised_at # "metric"

\* C10: a loaded table has the column date, has the column price when the
\* file has a price header, keeps every other column, and holds neither the
\* column the dates were read from (the date header, or the first column as
\* the fallback) nor the column the prices were read from under a header
\* that differs from the canonical one.
C10_SourceColumnsCollapsed ==
    (pc = "idle" /\ df.present) =>
        LET dj == DateSourceIndex(file)
            dh == Strip(file.header[dj])
        IN /\ HasColumn(df, DATE)
           /\ dh # DATE => ~HasColumn(df, dh)
           /\ HasHeader(file, PRICE) =>
                 LET ph == Strip(file.header[FirstHeader(file, PRICE)])
                 IN /\ HasColumn(df, PRICE)
                    /\ ph # PRICE => ~HasColumn(df, ph)
           /\ \A j \in 1..Len(file.header) :
                 (j # dj /\ ~HeaderNames(file.header[j], PRICE)) =>
                     HasColumn(df, Strip(file.header[j]))

====
